---- MODULE Spec2Model ----
(***************************************************************************)
(* Profile reconciliation of the AuthProvider (src/src/contexts/           *)
(* AuthContext.tsx): the effect that runs handleUserProfile for the        *)
(* signed-in user against the remote `profiles` table; the session effect  *)
(* of the same component, which keeps the `user` state; and the middleware *)
(* that guards the routes (the last part of src/src/app/entrenadores/      *)
(* page.tsx); the profile page (src/src/app/workouts/[id]/page.tsx), which *)
(* reads and writes the same table; and the OAuth callback route           *)
(* (src/src/app/auth/callback/route.ts).                                   *)
(*                                                                         *)
(* Text values are TLA+ strings; JavaScript null / undefined is NULL.      *)
(* A timestamp is a natural number, 0 standing for a null column.          *)
(* A roles column is a sequence of role names, or NullRoles for null.      *)
(***************************************************************************)
EXTENDS Integers, Sequences, FiniteSets, TLC

VARIABLES rows, nextId, user, now, runs, started, faultsLeft, history,
          auth, guard, page, callback

vars == <<rows, nextId, user, now, runs, started, faultsLeft, history,
          auth, guard, page, callback>>

(* ------------------------------ bounds -------------------------------- *)
MaxRows == 2        \* duplicate rows of the subject in the initial store
MaxRowsSeq == 3     \* the same, for the sequential specification
MaxStamp == 2       \* created_at values 1..MaxStamp (0 = null)
MaxStarts == 2      \* effect invocations under concurrent scheduling
MaxStartsSeq == 3   \* effect invocations under sequential scheduling
MaxFaults == 1      \* store operations that may fail in one behaviour
NumSlots == 2       \* handleUserProfile calls that can be in flight at once
MaxRequests == 2    \* requests the route guard decides in one behaviour
MaxMounts == 2      \* runs of the session effect (mount, and a second run)
MaxRefs == 2        \* User objects the session provider hands over
MaxOpens == 2       \* times the profile page is opened
MaxSaves == 1       \* saves and uploads made on the profile page
MaxCallbacks == 2   \* redirects back from the identity provider

Slots == 1..NumSlots

(* --------------------------- JavaScript values ------------------------ *)
NULL == "null"
NullRoles == <<NULL>>

Truthy(x) == x # NULL /\ x # ""

\* a || b
Or(a, b) == IF Truthy(a) THEN a ELSE b

\* email.split('@')[0]
LocalPart(email) ==
    LET ats == {k \in 1..Len(email) : SubSeq(email, k, k) = "@"}
    IN  IF ats = {} THEN email
        ELSE LET first == CHOOSE k \in ats : \A j \in ats : k <= j
             IN  SubSeq(email, 1, first - 1)

userNameSwapped(u) ==
    Or(u.name, Or(u.full_name, Or(u.displayName, Or(u.display_name,
       IF Truthy(u.email) THEN LocalPart(u.email) ELSE NULL))))

\* AuthContext.tsx 168-172, 219-223, 277-281
userName(u) ==
    Or(u.full_name, Or(u.name, Or(u.displayName, Or(u.display_name,
       IF Truthy(u.email) THEN LocalPart(u.email) ELSE NULL))))

(* ------------------------- the profiles table ------------------------- *)
Subject == "u1"
OtherSubject == "u2"

\* rows of the table matching .eq('uuid', uuid)
SelectByUuid(rs, uuid) == {r \in rs : r.uuid = uuid}

\* .delete().eq('id', id)
DeleteById(rs, id) == {r \in rs : r.id # id}

\* a targeted update: only the columns named in the patch are written
Patch(r, p) == [f \in DOMAIN r |-> IF f \in DOMAIN p THEN p[f] ELSE r[f]]

\* .update(p).eq('id', id)
UpdateById(rs, id, p) == {IF r.id = id THEN Patch(r, p) ELSE r : r \in rs}

\* .update(p).eq('uuid', uuid)
UpdateByUuid(rs, uuid, p) == {IF r.uuid = uuid THEN Patch(r, p) ELSE r : r \in rs}

\* the row an insert of `data` creates: serial id, created_at defaults to now
NewRow(data, id, t) ==
    [id |-> id, uuid |-> data.uuid, created_at |-> t, email |-> data.email,
     name |-> data.name, phone |-> data.phone, providers |-> data.providers,
     provider_type |-> data.provider_type, image |-> data.image,
     last_sign_in_at |-> data.last_sign_in_at, roles |-> data.roles]

PlainInsert(rs, data, id, t) == rs \cup {NewRow(data, id, t)}

\* what an insert leaves in the columns its data does not name
ColumnDefaults ==
    [email |-> NULL, name |-> NULL, phone |-> NULL, providers |-> NullRoles,
     provider_type |-> NULL, image |-> NULL, last_sign_in_at |-> 0,
     roles |-> NullRoles]

\* .upsert(data, { onConflict: 'uuid', ignoreDuplicates: false }): on a
\* conflict every column of data is written over the stored row
Upsert(rs, data, id, t) ==
    IF SelectByUuid(rs, data.uuid) # {}
    THEN UpdateByUuid(rs, data.uuid, data)
    ELSE rs \cup {NewRow(data @@ ColumnDefaults, id, t)}

\* .single(): the row when exactly one matches, else data = null
NoProfile == [found |-> FALSE, name |-> NULL, roles |-> NullRoles]
Single(matching) ==
    IF Cardinality(matching) = 1
    THEN LET r == CHOOSE x \in matching : TRUE
         IN  [found |-> TRUE, name |-> r.name, roles |-> r.roles]
    ELSE NoProfile

(* ------------------------------ sorting ------------------------------- *)
\* the comparator of AuthContext.tsx 110-117
CmpProfiles(a, b) ==
    IF a.created_at # 0 /\ b.created_at # 0
    THEN a.created_at - b.created_at
    ELSE a.id - b.id

\* a consistent comparison function in the sense of Array.prototype.sort
Consistent(S) ==
    \A a, b, c \in S :
        /\ (CmpProfiles(a, b) < 0 /\ CmpProfiles(b, c) < 0) => CmpProfiles(a, c) < 0
        /\ (CmpProfiles(a, b) = 0 /\ CmpProfiles(b, c) = 0) => CmpProfiles(a, c) = 0

Range(q) == {q[k] : k \in DOMAIN q}

\* every order in which the store may return a set of rows (no ORDER BY)
Orders(S) == {q \in [1..Cardinality(S) -> S] : Range(q) = S}

Sorted(q) == \A k \in 1..(Len(q) - 1) : CmpProfiles(q[k], q[k + 1]) <= 0

\* q is p reordered without exchanging two elements that compare equal
StableFrom(p, q) ==
    \A j, k \in DOMAIN p :
        (j < k /\ CmpProfiles(p[j], p[k]) = 0) =>
            (CHOOSE x \in DOMAIN q : q[x] = p[j]) < (CHOOSE x \in DOMAIN q : q[x] = p[k])

\* [...p].sort(cmp): the stable sorted order when the comparator is
\* consistent on p; otherwise the order is implementation-defined
SortResults(p) ==
    IF Consistent(Range(p))
    THEN {q \in Orders(Range(p)) : Sorted(q) /\ StableFrom(p, q)}
    ELSE Orders(Range(p))

(* ------------------------ patches and new rows ------------------------ *)
DefaultRole == "trainer"
DefaultProvider == "google"

LacksTrainerAlways(cp) == TRUE

\* !roles || !Array.isArray(roles) || !roles.includes('trainer')
LacksTrainer(cp) == cp.roles = NullRoles \/ DefaultRole \notin Range(cp.roles)

\* roles && Array.isArray(roles) ? [...roles, 'trainer'] : ['trainer']
WithTrainer(cp) ==
    IF cp.roles # NullRoles THEN Append(cp.roles, DefaultRole) ELSE <<DefaultRole>>

OldestPatchMerged(t) == [last_sign_in_at |-> t, roles |-> <<DefaultRole>>]

\* AuthContext.tsx 138: the patch of the duplicate-collapse branch
OldestPatch(t) == [last_sign_in_at |-> t]

\* AuthContext.tsx 182-198: the patch of the double-check branch
DoubleCheckPatch(t, uName, cp) ==
    [last_sign_in_at |-> t]
      @@ (IF Truthy(uName) /\ ~Truthy(cp.name) THEN [name |-> uName] ELSE <<>>)
      @@ (IF LacksTrainer(cp) THEN [roles |-> WithTrainer(cp)] ELSE <<>>)

\* AuthContext.tsx 297-309: what the existing-profile branch adds to
\* updateData after reading the current profile (reached when userName is set)
ExistingPatch(updateData, uName, cp) ==
    updateData
      @@ (IF ~Truthy(cp.name) THEN [name |-> uName] ELSE <<>>)
      @@ (IF LacksTrainer(cp) THEN [roles |-> WithTrainer(cp)] ELSE <<>>)

profileDataNoDefault(u, t) ==
    [uuid |-> u.id, email |-> u.email, name |-> userName(u),
     phone |-> Or(u.phone, NULL), providers |-> <<u.provider>>,
     provider_type |-> u.provider, image |-> Or(u.avatar_url, NULL),
     last_sign_in_at |-> t, roles |-> <<DefaultRole>>]

\* AuthContext.tsx 228-238
profileData(u, t) ==
    [uuid |-> u.id, email |-> u.email, name |-> userName(u),
     phone |-> Or(u.phone, NULL),
     providers |-> <<Or(u.provider, DefaultProvider)>>,
     provider_type |-> Or(u.provider, DefaultProvider),
     image |-> Or(u.avatar_url, NULL),
     last_sign_in_at |-> t, roles |-> <<DefaultRole>>]

(* ------------------------- handleUserProfile -------------------------- *)
NoData == [uuid |-> NULL]

\* the closure the profile effect creates (AuthContext.tsx 79-81)
FreshRun ==
    [pc |-> "idle", inProgress |-> FALSE,
     sortedProfiles |-> <<>>, i |-> 0, userName |-> NULL,
     currentProfile |-> NoProfile, updateData |-> [last_sign_in_at |-> 0],
     profileData |-> NoData, branch |-> "none", faults |-> {}, logged |-> {},
     success |-> FALSE]

\* what one store request may do: answer, answer with an error, or reject
Outcomes == IF faultsLeft > 0 THEN {"ok", "error", "throw"} ELSE {"ok"}

\* name, roles, providers and identity of the subject's rows
Projection(rs) ==
    {[id |-> r.id, name |-> r.name, roles |-> r.roles, providers |-> r.providers] :
        r \in SelectByUuid(rs, Subject)}

ReturnRunning(r) == [r EXCEPT !.pc = "done"]

\* the run returns: `finally` clears the flag (AuthContext.tsx 326-328)
Return(r) == [r EXCEPT !.pc = "done", !.inProgress = FALSE]

\* a rejected request lands in the outer catch (AuthContext.tsx 323-325)
Thrown(r, step) ==
    Return([r EXCEPT !.faults = @ \cup {step}, !.logged = @ \cup {"unexpected"}])

FinishSignedOut(s, r, rs) ==
    /\ runs' = [runs EXCEPT ![s] = r]
    /\ auth' = IF r.pc = "done" /\ ~r.success
               THEN [auth EXCEPT !.user = 0, !.loading = TRUE] ELSE auth
    /\ history' = IF r.pc = "done"
                  THEN Append(history, [branch |-> r.branch, faults |-> r.faults,
                                        rows |-> Projection(rs)])
                  ELSE history

\* a step of handleUserProfile ends: the run is where r says; nothing in
\* AuthContext.tsx 81-329 calls setUser or setLoading, the catch at 323-325
\* keeps a failure inside the effect
Finish(s, r, rs) ==
    /\ runs' = [runs EXCEPT ![s] = r]
    /\ auth' = auth
    /\ history' = IF r.pc = "done"
                  THEN Append(history, [branch |-> r.branch, faults |-> r.faults,
                                        rows |-> Projection(rs)])
                  ELSE history

Spend(o) == faultsLeft' = IF o = "ok" THEN faultsLeft ELSE faultsLeft - 1

InFlight(s) == runs[s].pc \notin {"idle", "done"}

\* AuthContext.tsx 81-89, 332: handleUserProfile() up to its first await,
\* on the closure the effect has just made
Invoke ==
    IF FreshRun.inProgress
    THEN Return(FreshRun)
    ELSE [FreshRun EXCEPT !.inProgress = TRUE, !.pc = "list"]

\* AuthContext.tsx 62-89 and 332: the effect runs for a signed-in user,
\* makes its closure and calls handleUserProfile up to the first await
EffectRun(s) ==
    /\ ~InFlight(s)
    /\ started < MaxStarts
    /\ started' = started + 1
    /\ now' = now + 1
    /\ runs' = [runs EXCEPT ![s] = Invoke]
    /\ UNCHANGED <<rows, nextId, user, faultsLeft, history, auth, guard, page, callback>>

\* the same, when invocations follow one another
EffectRunSeq(s) ==
    /\ \A x \in Slots : ~InFlight(x)
    /\ started < MaxStartsSeq
    /\ started' = started + 1
    /\ now' = now + 1
    /\ runs' = [runs EXCEPT ![s] = Invoke]
    /\ UNCHANGED <<rows, nextId, user, faultsLeft, history, auth, guard, page, callback>>

ListErrorGoesOn(r) ==
    [r EXCEPT !.faults = @ \cup {"list"}, !.logged = @ \cup {"list"},
              !.pc = "doubleCheck"]

\* AuthContext.tsx 97-100: if (listError) { console.error(...); return; }
ListError(r) ==
    Return([r EXCEPT !.faults = @ \cup {"list"}, !.logged = @ \cup {"list"},
                     !.branch = "listError"])

\* AuthContext.tsx 92-151, 272-289: the list query resolves
ListProfiles(s) ==
    /\ runs[s].pc = "list"
    /\ \E o \in Outcomes :
         /\ Spend(o)
         /\ IF o = "throw" THEN Finish(s, Thrown(runs[s], "list"), rows)
            ELSE IF o = "error"
            THEN Finish(s, ListError(runs[s]), rows)
            ELSE \E all \in Orders(SelectByUuid(rows, user.id)) :
                   IF Len(all) > 1
                   THEN \E sorted \in SortResults(all) :
                          Finish(s, [runs[s] EXCEPT !.sortedProfiles = sorted,
                                                    !.i = 1,
                                                    !.branch = "collapse",
                                                    !.pc = "delete"], rows)
                   ELSE IF Len(all) = 0
                   THEN Finish(s, [runs[s] EXCEPT !.pc = "doubleCheck"], rows)
                   ELSE Finish(s, [runs[s] EXCEPT
                                     !.branch = "existing",
                                     !.userName = userName(user),
                                     !.updateData = [last_sign_in_at |-> now],
                                     !.pc = IF Truthy(userName(user))
                                            THEN "readCurrent" ELSE "update"], rows)
    /\ UNCHANGED <<rows, nextId, user, now, started, guard, page, callback>>

\* AuthContext.tsx 123-131: one delete of the loop resolves; its result
\* is not inspected
DeleteDuplicate(s) ==
    /\ runs[s].pc = "delete"
    /\ \E o \in Outcomes :
         LET r  == runs[s]
             rs == IF o = "ok"
                   THEN DeleteById(rows, r.sortedProfiles[r.i + 1].id)
                   ELSE rows
         IN  /\ Spend(o)
             /\ rows' = rs
             /\ IF o = "throw" THEN Finish(s, Thrown(r, "delete"), rs)
                ELSE Finish(s, [r EXCEPT
                                  !.faults = IF o = "ok" THEN @ ELSE @ \cup {"delete"},
                                  !.i = @ + 1,
                                  !.pc = IF r.i + 1 < Len(r.sortedProfiles)
                                         THEN "delete" ELSE "updateOldest"], rs)
    /\ UNCHANGED <<nextId, user, now, started, guard, page, callback>>

\* AuthContext.tsx 136-147: the update of the oldest profile resolves
UpdateOldest(s) ==
    /\ runs[s].pc = "updateOldest"
    /\ \E o \in Outcomes :
         LET r  == runs[s]
             rs == IF o = "ok"
                   THEN UpdateById(rows, r.sortedProfiles[1].id, OldestPatch(now))
                   ELSE rows
         IN  /\ Spend(o)
             /\ rows' = rs
             /\ IF o = "throw" THEN Finish(s, Thrown(r, "updateOldest"), rs)
                ELSE IF o = "error"
                THEN Finish(s, Return([r EXCEPT !.faults = @ \cup {"updateOldest"},
                                                !.logged = @ \cup {"update"}]), rs)
                ELSE Finish(s, Return([r EXCEPT !.success = TRUE]), rs)
    /\ UNCHANGED <<nextId, user, now, started, guard, page, callback>>

FoundNever(matching, failed) == FALSE

\* AuthContext.tsx 164: if (doubleCheck), the data of .maybeSingle()
Found(matching, failed) == ~failed /\ Cardinality(matching) = 1

\* AuthContext.tsx 153-172, 215-238: the second lookup (.maybeSingle())
\* resolves; an error is logged and the run goes on
DoubleCheck(s) ==
    /\ runs[s].pc = "doubleCheck"
    /\ \E o \in Outcomes :
         LET r        == runs[s]
             matching == SelectByUuid(rows, user.id)
             failed   == o = "error" \/ Cardinality(matching) > 1
             found    == Found(matching, failed)
             r1       == [r EXCEPT
                            !.faults = IF o = "ok" THEN @ ELSE @ \cup {"doubleCheck"},
                            !.logged = IF failed THEN @ \cup {"doubleCheck"} ELSE @,
                            !.userName = userName(user)]
         IN  /\ Spend(o)
             /\ IF o = "throw" THEN Finish(s, Thrown(r, "doubleCheck"), rows)
                ELSE IF found
                THEN Finish(s, [r1 EXCEPT !.branch = "doubleCheck",
                                          !.pc = "readCurrentDC"], rows)
                ELSE Finish(s, [r1 EXCEPT !.branch = "create",
                                          !.profileData = profileData(user, now),
                                          !.pc = "upsert"], rows)
    /\ UNCHANGED <<rows, nextId, user, now, started, guard, page, callback>>

\* AuthContext.tsx 175-198: the read of name and roles (.single()) resolves;
\* its error is not inspected
ReadCurrentDC(s) ==
    /\ runs[s].pc = "readCurrentDC"
    /\ \E o \in Outcomes :
         LET r  == runs[s]
             cp == IF o = "ok" THEN Single(SelectByUuid(rows, user.id)) ELSE NoProfile
         IN  /\ Spend(o)
             /\ IF o = "throw" THEN Finish(s, Thrown(r, "readCurrent"), rows)
                ELSE Finish(s, [r EXCEPT
                                  !.faults = IF o = "ok" THEN @ ELSE @ \cup {"readCurrent"},
                                  !.currentProfile = cp,
                                  !.updateData = DoubleCheckPatch(now, r.userName, cp),
                                  !.pc = "updateDC"], rows)
    /\ UNCHANGED <<rows, nextId, user, now, started, guard, page, callback>>

\* AuthContext.tsx 291-310: the same read in the existing-profile branch
ReadCurrent(s) ==
    /\ runs[s].pc = "readCurrent"
    /\ \E o \in Outcomes :
         LET r  == runs[s]
             cp == IF o = "ok" THEN Single(SelectByUuid(rows, user.id)) ELSE NoProfile
         IN  /\ Spend(o)
             /\ IF o = "throw" THEN Finish(s, Thrown(r, "readCurrent"), rows)
                ELSE Finish(s, [r EXCEPT
                                  !.faults = IF o = "ok" THEN @ ELSE @ \cup {"readCurrent"},
                                  !.currentProfile = cp,
                                  !.updateData = ExistingPatch(r.updateData, r.userName, cp),
                                  !.pc = "update"], rows)
    /\ UNCHANGED <<rows, nextId, user, now, started, guard, page, callback>>

\* AuthContext.tsx 201-212 and 312-321: .update(updateData).eq('uuid', user.id)
\* resolves
UpdateProfile(s) ==
    /\ runs[s].pc \in {"update", "updateDC"}
    /\ \E o \in Outcomes :
         LET r  == runs[s]
             rs == IF o = "ok" THEN UpdateByUuid(rows, user.id, r.updateData) ELSE rows
         IN  /\ Spend(o)
             /\ rows' = rs
             /\ IF o = "throw" THEN Finish(s, Thrown(r, "update"), rs)
                ELSE IF o = "error"
                THEN Finish(s, Return([r EXCEPT !.faults = @ \cup {"update"},
                                                !.logged = @ \cup {"update"}]), rs)
                ELSE Finish(s, Return([r EXCEPT !.success = TRUE]), rs)
    /\ UNCHANGED <<nextId, user, now, started, guard, page, callback>>

\* AuthContext.tsx 247-271: the upsert resolves; a rejection is caught by
\* the inner catch
UpsertProfile(s) ==
    /\ runs[s].pc = "upsert"
    /\ \E o \in Outcomes :
         LET r  == runs[s]
             rs == IF o = "ok" THEN Upsert(rows, r.profileData, nextId, now) ELSE rows
         IN  /\ Spend(o)
             /\ rows' = rs
             /\ nextId' = IF Cardinality(rs) > Cardinality(rows) THEN nextId + 1 ELSE nextId
             /\ IF o = "throw"
                THEN Finish(s, Return([r EXCEPT !.faults = @ \cup {"upsert"},
                                                !.logged = @ \cup {"unexpected"}]), rs)
                ELSE IF o = "error"
                THEN Finish(s, Return([r EXCEPT !.faults = @ \cup {"upsert"},
                                                !.logged = @ \cup {"upsert"}]), rs)
                ELSE Finish(s, Return([r EXCEPT !.success = TRUE]), rs)
    /\ UNCHANGED <<user, now, started, guard, page, callback>>


(* --------------------------- the route guard -------------------------- *)
\* String.prototype.startsWith
StartsWith(s, p) == Len(s) >= Len(p) /\ SubSeq(s, 1, Len(p)) = p

\* config.matcher, '/((?!_next/static|_next/image|favicon.ico|\.svg).*)':
\* the middleware is invoked unless the text after the first '/' begins with
\* one of the alternatives; '.' in favicon.ico and in .svg is the regular
\* expression's any-character ('\.' in a string literal is '.')
Matcher(path) ==
    LET rest == SubSeq(path, 2, Len(path))
    IN  ~ \/ StartsWith(rest, "_next/static")
          \/ StartsWith(rest, "_next/image")
          \/ (Len(rest) >= 11 /\ SubSeq(rest, 1, 7) = "favicon"
                              /\ SubSeq(rest, 9, 11) = "ico")
          \/ (Len(rest) >= 4 /\ SubSeq(rest, 2, 4) = "svg")

\* what the middleware returns
Serve == "next"
ToLogin == "redirect:/login"
ToHome == "redirect:/"

IsCallback(path) == StartsWith(path, "/auth/callback")

IsPublicAsset(path) ==
    \/ StartsWith(path, "/_next")
    \/ StartsWith(path, "/favicon.ico")
    \/ StartsWith(path, "/public")

IsLogin(path) == StartsWith(path, "/login")

\* how supabase.auth.getSession() can end in the middleware: it resolves
\* with the session, resolves with an error and no session, or the client
\* creation or the call throws
Checks == {"ok", "error", "throw"}

\* the `session` the middleware destructures, for a request that carries
\* a valid session (has) or not
SessionOf(has, check) == check = "ok" /\ has

middlewareSessionFirst(path, has, check) ==
    IF check = "throw" THEN Serve
    ELSE IF ~SessionOf(has, check) /\ ~IsLogin(path) THEN ToLogin
    ELSE IF SessionOf(has, check) /\ IsLogin(path) THEN ToHome
    ELSE Serve

middlewareLoginServed(path, has, check) ==
    IF check = "throw" THEN Serve
    ELSE IF IsCallback(path) THEN Serve
    ELSE IF IsPublicAsset(path) THEN Serve
    ELSE IF ~SessionOf(has, check) /\ ~IsLogin(path) THEN ToLogin
    ELSE Serve

middlewareFailClosed(path, has, check) ==
    IF check = "throw" THEN (IF IsLogin(path) THEN Serve ELSE ToLogin)
    ELSE IF IsCallback(path) THEN Serve
    ELSE IF IsPublicAsset(path) THEN Serve
    ELSE IF ~SessionOf(has, check) /\ ~IsLogin(path) THEN ToLogin
    ELSE IF SessionOf(has, check) /\ IsLogin(path) THEN ToHome
    ELSE Serve

\* entrenadores/page.tsx 373-441
middleware(path, has, check) ==
    IF check = "throw" THEN Serve
    ELSE IF IsCallback(path) THEN Serve
    ELSE IF IsPublicAsset(path) THEN Serve
    ELSE IF ~SessionOf(has, check) /\ ~IsLogin(path) THEN ToLogin
    ELSE IF SessionOf(has, check) /\ IsLogin(path) THEN ToHome
    ELSE Serve

NoRequest ==
    [stage |-> "idle", path |-> "/", has |-> FALSE, check |-> "none",
     res |-> "none", n |-> 0]

\* the request paths the guard is exercised on
Paths ==
    {"/", "/login", "/login/reset", "/loginx", "/workouts", "/workouts/7",
     "/entrenadores", "/auth/callback", "/auth/callback/x", "/auth/other",
     "/_next/static/a.js", "/_next/image", "/_next/data/b.json",
     "/favicon.ico", "/public/logo.png", "/logo.svg", "/asvg"}

\* a request comes in; the framework serves it without the middleware when
\* config.matcher does not match its path (entrenadores/page.tsx 444-446)
Request ==
    /\ guard.stage \in {"idle", "decided"}
    /\ guard.n < MaxRequests
    /\ \E path \in Paths, has \in BOOLEAN :
         guard' = [stage |-> IF Matcher(path) THEN "middleware" ELSE "decided",
                   path |-> path, has |-> has, check |-> "none",
                   res |-> IF Matcher(path) THEN "none" ELSE Serve,
                   n |-> guard.n + 1]
    /\ UNCHANGED <<rows, nextId, user, now, runs, started, faultsLeft, history, auth, page, callback>>

\* entrenadores/page.tsx 373-441: the middleware runs to its return
Middleware ==
    /\ guard.stage = "middleware"
    /\ \E check \in Checks :
         guard' = [guard EXCEPT !.stage = "decided", !.check = check,
                                !.res = middleware(guard.path, guard.has, check)]
    /\ UNCHANGED <<rows, nextId, user, now, runs, started, faultsLeft, history, auth, page, callback>>

(* ------------------------- the session monitor ------------------------ *)
\* auth: the state of AuthProvider and of the session provider it listens to.
\*   session   the provider holds a session for this browser
\*   user      the User object the `user` state holds (a reference), 0 for null
\*   loading   the `loading` state
\*   nextRef   the next User object the provider makes
\*   mounted   AuthProvider is mounted
\*   subs      the subscriptions to onAuthStateChange that are live
\*   effectSub the subscription the current session effect holds, 0 for none
\*   nextSub   the next subscription
\*   pending   getSession() promises that have not resolved
NoMonitor ==
    [session |-> FALSE, user |-> 0, loading |-> TRUE, nextRef |-> 1,
     mounted |-> TRUE, subs |-> {}, effectSub |-> 0, nextSub |-> 1,
     pending |-> 0]

EffectGuardAlways(u) == TRUE

\* AuthContext.tsx 64: if (user)
EffectGuard(u) == u # 0

KeepSubscribed(subs, id) == subs

\* AuthContext.tsx 57: subscription.unsubscribe()
Unsubscribe(subs, id) == subs \ {id}

\* the values session?.user ?? null can take when the provider hands over
\* its session: null without a session; with one, the User object the state
\* already holds or one made for this delivery (a refreshed token always
\* comes with a new one)
Users(session, refreshed) ==
    IF ~session THEN {0}
    ELSE (IF auth.nextRef <= MaxRefs THEN {auth.nextRef} ELSE {})
           \cup (IF auth.user # 0 /\ ~refreshed THEN {auth.user} ELSE {})

\* setUser(u); setLoading(false), the render that follows and the profile
\* effect (AuthContext.tsx 34-35, 47-48, 62-334): the effect runs when `user`
\* is another object than before and calls handleUserProfile when it is set;
\* the new closure takes the first slot no call in flight occupies
SetUser(a, u, loading) ==
    /\ auth' = [a EXCEPT !.user = u, !.loading = loading,
                         !.nextRef = IF u = a.nextRef THEN @ + 1 ELSE @]
    /\ IF u # auth.user /\ EffectGuard(u)
       THEN \E s \in Slots :
              /\ ~InFlight(s)
              /\ \A t \in 1..(s - 1) : InFlight(t)
              /\ runs' = [runs EXCEPT ![s] = Invoke]
              /\ started' = started + 1
              /\ now' = now + 1
       ELSE UNCHANGED <<runs, started, now>>

\* AuthContext.tsx 24-53: the body of the session effect: it asks for the
\* session and subscribes to the provider
Subscribed(a) ==
    [a EXCEPT !.pending = @ + 1,
              !.subs = @ \cup {a.nextSub},
              !.effectSub = a.nextSub,
              !.nextSub = @ + 1]

\* the session effect runs after the first render
SessionEffect ==
    /\ auth.mounted
    /\ auth.effectSub = 0
    /\ auth.nextSub <= MaxMounts
    /\ auth' = Subscribed(auth)
    /\ UNCHANGED <<rows, nextId, user, now, runs, started, faultsLeft, history, guard, page, callback>>

\* the session effect runs again (a changed dependency, or the second run
\* of reactStrictMode): its cleanup (AuthContext.tsx 55-58), then its body
Rerun ==
    /\ auth.effectSub # 0
    /\ auth.nextSub <= MaxMounts
    /\ auth' = Subscribed([auth EXCEPT !.subs = Unsubscribe(@, auth.effectSub)])
    /\ UNCHANGED <<rows, nextId, user, now, runs, started, faultsLeft, history, guard, page, callback>>

\* AuthContext.tsx 55-58: AuthProvider unmounts and the cleanup of the
\* session effect runs (the state updates of an unmounted component are
\* dropped, its pending promises with them)
Cleanup ==
    /\ auth.effectSub # 0
    /\ auth' = [auth EXCEPT !.subs = Unsubscribe(@, auth.effectSub),
                            !.effectSub = 0,
                            !.mounted = FALSE,
                            !.pending = 0]
    /\ UNCHANGED <<rows, nextId, user, now, runs, started, faultsLeft, history, guard, page, callback>>

\* AuthContext.tsx 28-36: getSession() resolves
GetSession ==
    /\ auth.pending > 0
    /\ \E u \in Users(auth.session, FALSE) :
         SetUser([auth EXCEPT !.pending = @ - 1], u, FALSE)
    /\ UNCHANGED <<rows, nextId, user, faultsLeft, history, guard, page, callback>>

Events == {"INITIAL_SESSION", "SIGNED_IN", "TOKEN_REFRESHED", "SIGNED_OUT"}

\* the session the provider holds once it has emitted the event
SessionAfter(event) ==
    IF event = "SIGNED_IN" THEN TRUE
    ELSE IF event = "SIGNED_OUT" THEN FALSE
    ELSE auth.session

\* AuthContext.tsx 39-52: the provider emits an event; the callback of a
\* live subscription sets `user` and `loading`
AuthStateChange(event) ==
    /\ event \in {"TOKEN_REFRESHED", "SIGNED_OUT"} => auth.session
    /\ event = "INITIAL_SESSION" => auth.subs # {}
    /\ LET a == [auth EXCEPT !.session = SessionAfter(event)]
       IN  IF auth.subs # {} /\ auth.mounted
           THEN \E u \in Users(a.session, event = "TOKEN_REFRESHED") :
                  SetUser(a, u, FALSE)
           ELSE /\ auth' = a
                /\ UNCHANGED <<runs, started, now>>
    /\ UNCHANGED <<rows, nextId, user, faultsLeft, history, guard, page, callback>>

\* AuthContext.tsx 369-409: signOut() clears the local state, signs out on
\* the server and in the client (either may fail and is then only logged;
\* the SIGNED_OUT callback sets `loading`), and navigates to /login, which
\* unloads the page
signOut ==
    /\ auth.mounted
    /\ \E ok \in BOOLEAN :
         SetUser([auth EXCEPT !.session = IF ok THEN FALSE ELSE @,
                              !.mounted = FALSE, !.subs = {},
                              !.effectSub = 0, !.pending = 0],
                 0, IF ok /\ auth.subs # {} THEN FALSE ELSE auth.loading)
    /\ UNCHANGED <<rows, nextId, user, faultsLeft, history, guard, page, callback>>

(* --------------------------- the profile page -------------------------- *)
\* workouts/[id]/page.tsx 302-326: the component state after mount
NoPage ==
    [pc |-> "closed", email |-> NULL, name |-> "", phone |-> "",
     opens |-> 0, saves |-> 0]

\* what the user may type into the name field
TypedNames == {"Alex"}

\* workouts/[id]/page.tsx 362: the name the form is filled with
formName(data, u) ==
    Or(data.name, Or(u.full_name,
       Or(IF Truthy(u.email) THEN LocalPart(u.email) ELSE NULL, "")))

\* workouts/[id]/page.tsx 454-465, the columns of the model
pageData(u, pg) ==
    [uuid |-> u.id, name |-> pg.name, phone |-> Or(pg.phone, NULL),
     email |-> Or(pg.email, u.email)]

\* workouts/[id]/page.tsx 329-332, 391: the page mounts and fetchProfile
\* starts
OpenPage ==
    /\ page.pc = "closed"
    /\ page.opens < MaxOpens
    /\ page' = [NoPage EXCEPT !.pc = "fetch", !.opens = page.opens + 1,
                              !.saves = page.saves]
    /\ UNCHANGED <<rows, nextId, user, now, runs, started, faultsLeft, history,
                   auth, guard, callback>>

\* the user leaves the page
ClosePage ==
    /\ page.pc = "ready"
    /\ page' = [page EXCEPT !.pc = "closed"]
    /\ UNCHANGED <<rows, nextId, user, now, runs, started, faultsLeft, history,
                   auth, guard, callback>>

\* workouts/[id]/page.tsx 348-373, 383-388: the .single() read resolves
FetchProfile ==
    /\ page.pc = "fetch"
    /\ \E o \in Outcomes :
         LET matching == SelectByUuid(rows, user.id)
         IN  /\ Spend(o)
             /\ IF o # "ok" \/ Cardinality(matching) # 1
                THEN page' = [page EXCEPT !.pc = "ready"]
                ELSE LET data == CHOOSE r \in matching : TRUE
                     IN  page' = [page EXCEPT
                                    !.email = data.email,
                                    !.name = formName(data, user),
                                    !.phone = Or(data.phone, ""),
                                    !.pc = IF ~Truthy(data.image)
                                              /\ Truthy(user.avatar_url)
                                           THEN "image" ELSE "ready"]
    /\ UNCHANGED <<rows, nextId, user, now, runs, started, history, auth, guard,
                   callback>>

\* workouts/[id]/page.tsx 373-382: .update({ image }).eq('uuid', user.id)
\* resolves
ImageUpdate ==
    /\ page.pc = "image"
    /\ \E o \in Outcomes :
         /\ Spend(o)
         /\ rows' = IF o = "ok"
                    THEN UpdateByUuid(rows, user.id, [image |-> user.avatar_url])
                    ELSE rows
    /\ page' = [page EXCEPT !.pc = "ready"]
    /\ UNCHANGED <<nextId, user, now, runs, started, history, auth, guard,
                   callback>>

\* the user types a name into the form
EditName ==
    /\ page.pc = "ready"
    /\ \E n \in TypedNames \ {page.name} : page' = [page EXCEPT !.name = n]
    /\ UNCHANGED <<rows, nextId, user, now, runs, started, faultsLeft, history,
                   auth, guard, callback>>

\* workouts/[id]/page.tsx 395-438: the uploaded image's url is written
handleImageUpload ==
    /\ page.pc = "ready"
    /\ page.saves < MaxSaves
    /\ \E o \in Outcomes :
         /\ Spend(o)
         /\ rows' = IF o = "ok"
                    THEN UpdateByUuid(rows, user.id, [image |-> "upload.png"])
                    ELSE rows
    /\ page' = [page EXCEPT !.saves = @ + 1]
    /\ UNCHANGED <<nextId, user, now, runs, started, history, auth, guard,
                   callback>>

\* workouts/[id]/page.tsx 441-495: the form is saved with an upsert
handleUpdateProfile ==
    /\ page.pc = "ready"
    /\ page.saves < MaxSaves
    /\ \E o \in Outcomes :
         LET rs == IF o = "ok" THEN Upsert(rows, pageData(user, page), nextId, now)
                   ELSE rows
         IN  /\ Spend(o)
             /\ rows' = rs
             /\ nextId' = IF Cardinality(rs) > Cardinality(rows)
                          THEN nextId + 1 ELSE nextId
    /\ page' = [page EXCEPT !.saves = @ + 1]
    /\ UNCHANGED <<user, now, runs, started, history, auth, guard, callback>>

(* --------------------------- the OAuth callback ------------------------ *)
\* what searchParams.get returns for `error` and for `code`
ErrorParams == {NULL, "", "access_denied", "server_error"}
CodeParams == {NULL, "", "abc", "xyz"}

\* exchangeCodeForSession answers, answers with an error, or the client
\* creation or the call throws
Exchanges == {"ok", "error", "throw"}

GETTrustsCode(error, code, exchange) ==
    IF Truthy(error) THEN ToLogin
    ELSE IF Truthy(code) THEN ToHome
    ELSE ToLogin

\* auth/callback/route.ts 7-55
GET(error, code, exchange) ==
    IF Truthy(error) THEN ToLogin
    ELSE IF Truthy(code)
    THEN IF exchange = "ok" THEN ToHome ELSE ToLogin
    ELSE ToLogin

NoCallback ==
    [stage |-> "idle", error |-> NULL, code |-> NULL, exchange |-> "ok",
     res |-> "none", n |-> 0]

\* the provider sends the browser back to /auth/callback
CallbackRequest ==
    /\ callback.stage \in {"idle", "done"}
    /\ callback.n < MaxCallbacks
    /\ \E error \in ErrorParams, code \in CodeParams, exchange \in Exchanges :
         callback' = [stage |-> "handler", error |-> error, code |-> code,
                      exchange |-> exchange, res |-> "none",
                      n |-> callback.n + 1]
    /\ UNCHANGED <<rows, nextId, user, now, runs, started, faultsLeft, history,
                   auth, guard, page>>

\* auth/callback/route.ts 7-55: the handler runs to its return
Callback ==
    /\ callback.stage = "handler"
    /\ callback' = [callback EXCEPT
                      !.stage = "done",
                      !.res = GET(callback.error, callback.code,
                                  callback.exchange)]
    /\ UNCHANGED <<rows, nextId, user, now, runs, started, faultsLeft, history,
                   auth, guard, page>>

(* --------------------------- initial states --------------------------- *)
Stamps == 0..MaxStamp

\* name and roles of the rows the store starts with
Kinds == {[name |-> NULL, roles |-> NullRoles],
          [name |-> "Alex", roles |-> <<"admin">>],
          [name |-> "", roles |-> <<"trainer">>]}

LegacyRow(id, uuid, stamp, kind) ==
    [id |-> id, uuid |-> uuid, created_at |-> stamp, email |-> "old@x.com",
     name |-> kind.name, phone |-> NULL, providers |-> <<"email">>,
     provider_type |-> "email", image |-> NULL, last_sign_in_at |-> 0,
     roles |-> kind.roles]

OtherRow == LegacyRow(1, OtherSubject, 1, [name |-> "Zoe", roles |-> <<"client">>])

\* the stores with n rows for the subject, ids 2..n+1
Stores(n) ==
    {{OtherRow} \cup {LegacyRow(k + 1, Subject, st[k], kd[k]) : k \in 1..n} :
        st \in [1..n -> Stamps], kd \in [1..n -> Kinds]}

\* the duplicates one subject was left with by racing first sign-ins: n rows
\* of the same name and roles, ids 2..n+1, any n creation stamps or none
SeqStores(n) ==
    {{OtherRow} \cup {LegacyRow(k + 1, Subject, st[k], kd) : k \in 1..n} :
        st \in [1..n -> 0..n], kd \in Kinds}

Identity(full, nm, disp, disp2, email, avatar, provider) ==
    [id |-> Subject, email |-> email, phone |-> NULL, full_name |-> full,
     name |-> nm, displayName |-> disp, display_name |-> disp2,
     avatar_url |-> avatar, provider |-> provider]

Jane == Identity("Jane Doe", NULL, NULL, NULL, "jane@x.com", "pic.png", NULL)
Bob == Identity(NULL, NULL, NULL, NULL, "bob@x.com", NULL, "github")
Anon == Identity(NULL, NULL, NULL, NULL, NULL, NULL, "google")

Identities == {Jane, Bob, Anon}

\* the identities the name derivation is exercised on
AllIdentities ==
    {Identity(full, nm, disp, disp2, email, NULL, NULL) :
        full \in {NULL, "", "Jane Doe"}, nm \in {NULL, "Jay"},
        disp \in {NULL, "JD"}, disp2 \in {NULL, "jd"},
        email \in {NULL, "", "bob@x.com", "@x.com", "a@b@c"}}

InitCommon ==
    /\ now = 0
    /\ started = 0
    /\ history = <<>>
    /\ runs = [s \in Slots |-> FreshRun]
    /\ guard = NoRequest
    /\ page = NoPage
    /\ callback = NoCallback

Init ==
    /\ InitCommon
    /\ user \in Identities
    /\ \E n \in 0..MaxRows : rows \in Stores(n) /\ nextId = n + 2
    /\ faultsLeft = MaxFaults
    /\ auth = NoMonitor

\* one client or several, store requests that may fail
Next ==
    \/ \E s \in Slots : EffectRun(s)
    \/ \E s \in Slots : ListProfiles(s)
    \/ \E s \in Slots : DeleteDuplicate(s)
    \/ \E s \in Slots : UpdateOldest(s)
    \/ \E s \in Slots : DoubleCheck(s)
    \/ \E s \in Slots : ReadCurrentDC(s)
    \/ \E s \in Slots : ReadCurrent(s)
    \/ \E s \in Slots : UpdateProfile(s)
    \/ \E s \in Slots : UpsertProfile(s)

Spec == Init /\ [][Next]_vars

\* one step of the handleUserProfile call in slot s
RunStep(s) ==
    \/ ListProfiles(s)
    \/ DeleteDuplicate(s)
    \/ UpdateOldest(s)
    \/ DoubleCheck(s)
    \/ ReadCurrentDC(s)
    \/ ReadCurrent(s)
    \/ UpdateProfile(s)
    \/ UpsertProfile(s)

\* runs over none, one or two rows, in which every store request is settled
\* in the end: the promise a run awaits resolves or rejects, and the run
\* takes its next step
InitLive ==
    /\ InitCommon
    /\ user = Jane
    /\ \E n \in 0..2 :
         /\ rows = {OtherRow} \cup {LegacyRow(k + 1, Subject, 1,
                                              [name |-> NULL, roles |-> NullRoles]) :
                                       k \in 1..n}
         /\ nextId = n + 2
    /\ faultsLeft = MaxFaults
    /\ auth = NoMonitor

\* the effect runs again; the closures are alike, so the new call takes the
\* first slot that holds no call in flight
StartRun ==
    \E s \in Slots : (\A x \in Slots : x < s => InFlight(x)) /\ EffectRun(s)

NextLive ==
    \/ StartRun
    \/ \E s \in Slots : RunStep(s)

SpecLive ==
    InitLive /\ [][NextLive]_vars /\ \A s \in Slots : WF_vars(RunStep(s))

\* one invocation after the other, no store failure, no other writer
InitSeq ==
    /\ InitCommon
    /\ user \in Identities
    /\ \E n \in 0..MaxRowsSeq : rows \in SeqStores(n) /\ nextId = n + 2
    /\ faultsLeft = 0
    /\ auth = NoMonitor

NextSeq ==
    \/ EffectRunSeq(1)
    \/ ListProfiles(1)
    \/ DeleteDuplicate(1)
    \/ UpdateOldest(1)
    \/ DoubleCheck(1)
    \/ ReadCurrent(1)
    \/ UpdateProfile(1)
    \/ UpsertProfile(1)

SpecSeq == InitSeq /\ [][NextSeq]_vars

\* one invocation after the other, store requests that may fail
InitHeal ==
    /\ InitCommon
    /\ user \in Identities
    /\ \E n \in 0..MaxRowsSeq : rows \in SeqStores(n) /\ nextId = n + 2
    /\ faultsLeft = MaxFaults
    /\ auth = NoMonitor

SpecHeal == InitHeal /\ [][NextSeq]_vars

\* a subject the store has no row for, signing in from one client or several
InitFresh ==
    /\ InitCommon
    /\ user \in Identities
    /\ rows \in Stores(0)
    /\ nextId = 2
    /\ faultsLeft = MaxFaults
    /\ auth = NoMonitor

NextFresh ==
    \/ \E s \in Slots : EffectRun(s)
    \/ \E s \in Slots : ListProfiles(s)
    \/ \E s \in Slots : DoubleCheck(s)
    \/ \E s \in Slots : ReadCurrentDC(s)
    \/ \E s \in Slots : ReadCurrent(s)
    \/ \E s \in Slots : UpdateProfile(s)
    \/ \E s \in Slots : UpsertProfile(s)

SpecFresh == InitFresh /\ [][NextFresh]_vars

\* the same sign-in, over every shape of identity metadata
InitDerive ==
    /\ InitCommon
    /\ user \in AllIdentities
    /\ rows \in Stores(0)
    /\ nextId = 2
    /\ faultsLeft = 0
    /\ auth = NoMonitor

SpecDerive == InitDerive /\ [][NextFresh]_vars

\* a User object whose id is the empty string
NoId(u) == [u EXCEPT !.id = ""]

\* the profile effect given such a user, from one client or several
InitEmpty ==
    /\ InitCommon
    /\ user \in {NoId(u) : u \in Identities}
    /\ rows \in Stores(0)
    /\ nextId = 2
    /\ faultsLeft = MaxFaults
    /\ auth = NoMonitor

SpecEmpty == InitEmpty /\ [][NextFresh]_vars

\* requests to the application, whatever session they carry
InitGuard ==
    /\ InitCommon
    /\ user = Jane
    /\ rows \in Stores(0)
    /\ nextId = 2
    /\ faultsLeft = 0
    /\ auth = NoMonitor

NextGuard ==
    \/ Request
    \/ Middleware

SpecGuard == InitGuard /\ [][NextGuard]_vars

\* one browser: AuthProvider after its first render, a subject that has no
\* profile row yet; the provider has a session once it has signed in
InitMon ==
    /\ InitCommon
    /\ user = Jane
    /\ rows \in Stores(0)
    /\ nextId = 2
    /\ faultsLeft = MaxFaults
    /\ auth = NoMonitor

NextMon ==
    \/ SessionEffect
    \/ Rerun
    \/ Cleanup
    \/ GetSession
    \/ \E event \in Events : AuthStateChange(event)
    \/ signOut
    \/ \E s \in Slots : ListProfiles(s)
    \/ \E s \in Slots : DoubleCheck(s)
    \/ \E s \in Slots : ReadCurrentDC(s)
    \/ \E s \in Slots : ReadCurrent(s)
    \/ \E s \in Slots : UpdateProfile(s)
    \/ \E s \in Slots : UpsertProfile(s)

SpecMon == InitMon /\ [][NextMon]_vars

\* one browser signing in for the first time or again while the profile
\* page is open in it; no store failure
InitPage ==
    /\ InitCommon
    /\ user = Jane
    /\ \E n \in 0..1 : rows \in Stores(n) /\ nextId = n + 2
    /\ faultsLeft = 0
    /\ auth = NoMonitor

NextPage ==
    \/ EffectRun(1)
    \/ ListProfiles(1)
    \/ DoubleCheck(1)
    \/ ReadCurrentDC(1)
    \/ ReadCurrent(1)
    \/ UpdateProfile(1)
    \/ UpsertProfile(1)
    \/ OpenPage
    \/ ClosePage
    \/ FetchProfile
    \/ ImageUpdate
    \/ EditName
    \/ handleImageUpload
    \/ handleUpdateProfile

SpecPage == InitPage /\ [][NextPage]_vars

\* the provider's redirects back to the application
InitCallback ==
    /\ InitCommon
    /\ user = Jane
    /\ rows \in Stores(0)
    /\ nextId = 2
    /\ faultsLeft = 0
    /\ auth = NoMonitor

NextCallback ==
    \/ CallbackRequest
    \/ Callback

SpecCallback == InitCallback /\ [][NextCallback]_vars

(* ------------------------------ properties ---------------------------- *)
SubjectRows == SelectByUuid(rows, Subject)

Completed(s) == runs[s].pc = "done"

\* the run printed its success line (AuthContext.tsx 144, 209, 267, 320)
Succeeded(s) == Completed(s) /\ runs[s].success

RoleSet(r) == IF r.roles = NullRoles THEN {} ELSE Range(r.roles)

\* C1: once a reconciliation run has completed and reported success, the
\* store holds at most one row for the reconciled subject, whatever the
\* starting row count and however the runs overlap.
C1_AtMostOneRow ==
    \A s \in Slots : Succeeded(s) => Cardinality(SubjectRows) <= 1

\* C2: two first-time reconciliations of the same fresh subject that both
\* listed no row, both passed the second lookup and both reached the upsert
\* leave exactly one row for the subject (none only if no upsert succeeded).
C2_ConcurrentCreateOneRow ==
    \A s, t \in Slots :
        (s # t /\ Completed(s) /\ Completed(t)
           /\ runs[s].branch = "create" /\ runs[t].branch = "create")
        => /\ Cardinality(SubjectRows) <= 1
           /\ (runs[s].success \/ runs[t].success) => Cardinality(SubjectRows) = 1

C2_Witness ==
    /\ Succeeded(1) /\ Succeeded(2)
    /\ runs[1].branch = "create" /\ runs[2].branch = "create"
    /\ Cardinality(SubjectRows) = 1

\* C3: no step of a reconciliation run replaces a non-empty name: a row
\* whose name is non-empty keeps that name across every step.
C3_NameNeverReplaced ==
    [][\A r \in rows : \A q \in rows' :
          (Truthy(r.name) /\ q.id = r.id) => q.name = r.name]_vars

\* C4: no step of a reconciliation run removes a role: the roles of a row
\* after a step are a superset of its roles before the step.
C4_RolesNeverRemoved ==
    [][\A r \in rows : \A q \in rows' :
          q.id = r.id => RoleSet(r) \subseteq RoleSet(q)]_vars

\* C5: after a successful reconciliation of an identity that had exactly
\* one profile row, that row's roles contain the default role, also for an
\* identity with no name field and no email.
C5_DefaultRolePresent ==
    \A s \in Slots :
        (Succeeded(s) /\ runs[s].branch = "existing")
        => \A r \in SubjectRows : DefaultRole \in RoleSet(r)

\* the rows a collapse run listed, oldest first as it sorted them
Listed(s) == Range(runs[s].sortedProfiles)

Before(r, q) ==
    IF r.created_at # 0 /\ q.created_at # 0
    THEN r.created_at < q.created_at
    ELSE r.id < q.id

\* C7: a successful duplicate collapse leaves exactly one row, and no row
\* it found comes before the survivor (earliest created_at, lowest id when
\* creation timestamps are not comparable).
C7_SurvivorIsOldest ==
    (Succeeded(1) /\ runs[1].branch = "collapse")
    => /\ Cardinality(SubjectRows) = 1
       /\ \A r \in SubjectRows : \A q \in Listed(1) : ~Before(q, r)

C9_FirstTimeCreation ==
    \A s \in Slots :
        (Succeeded(s) /\ runs[s].branch = "create")
        => /\ Cardinality(SubjectRows) = 1
           /\ \A r \in SubjectRows :
                 /\ r.uuid = user.id
                 /\ r.email = user.email
                 /\ r.name = runs[s].userName
                 /\ r.roles = <<"trainer">>
                 /\ r.providers = <<IF Truthy(user.provider) THEN user.provider
                                    ELSE "google">>
                 /\ r.image = IF Truthy(user.avatar_url) THEN user.avatar_url ELSE NULL

C9_Witness ==
    /\ Succeeded(1) /\ runs[1].branch = "create"
    /\ user = Jane
    /\ \E r \in SubjectRows :
          r.name = "Jane Doe" /\ r.email = "jane@x.com" /\ r.roles = <<"trainer">>

\* the text of e before its first '@'
HasAt(p) == \E k \in 1..Len(p) : SubSeq(p, k, k) = "@"
Prefixes(e) == {SubSeq(e, 1, k) : k \in 0..Len(e)}
BeforeAt(e) == CHOOSE p \in Prefixes(e) : ~HasAt(p) /\ (p \o "@") \in Prefixes(e)

Candidates(u) ==
    <<u.full_name, u.name, u.displayName, u.display_name,
      IF Truthy(u.email) THEN BeforeAt(u.email) ELSE NULL>>

\* C10: the name a run derives is the first non-empty of full_name, name,
\* displayName, display_name and the email's text before '@'; 'bob' for no
\* name field and bob@x.com; none with no name field and no email.
C10_DerivedName ==
    \A s \in Slots :
        runs[s].branch \in {"existing", "doubleCheck", "create"}
        => LET c  == Candidates(user)
               ne == {k \in 1..5 : Truthy(c[k])}
           IN  IF ne = {} THEN ~Truthy(runs[s].userName)
               ELSE runs[s].userName = c[CHOOSE k \in ne : \A j \in ne : k <= j]

C10_Witness ==
    /\ runs[1].branch = "create"
    /\ ~Truthy(user.full_name) /\ ~Truthy(user.name)
    /\ ~Truthy(user.displayName) /\ ~Truthy(user.display_name)
    /\ user.email = "bob@x.com"
    /\ runs[1].userName = "bob"

(* ---------------------------- route guard ----------------------------- *)
\* the guard has returned for the request at hand
Decided == guard.stage = "decided"

\* the paths the guard never applies its session rules to: those the
\* matcher keeps from the middleware, the OAuth callback, the asset prefixes
AllowListed(path) == ~Matcher(path) \/ IsCallback(path) \/ IsPublicAsset(path)

\* the decision table: session valid?, login path?
Table(valid, login) ==
    IF ~valid /\ ~login THEN ToLogin
    ELSE IF ~valid /\ login THEN Serve
    ELSE IF valid /\ ~login THEN Serve
    ELSE ToHome

\* C11: for a request outside the allow-list whose session check has
\* returned, the guard's outcome is the one the decision table gives for
\* (session valid, path is a login path): redirect to /login, serve, serve,
\* redirect to '/'.
C11_DecisionTable ==
    (Decided /\ ~AllowListed(guard.path) /\ guard.check # "throw")
    => guard.res = Table(SessionOf(guard.has, guard.check), IsLogin(guard.path))

C11_Witness ==
    /\ Decided /\ guard.path = "/login/reset" /\ guard.check = "ok"
    /\ guard.has /\ guard.res = ToHome /\ guard.n = 2

C14_NoOverlap ==
    \A s, t \in Slots : (InFlight(s) /\ InFlight(t)) => s = t

(* --------------------------- error handling --------------------------- *)
\* C15: a reconciliation for an identity whose id is empty writes nothing:
\* no step changes the profile store.
C15_EmptySubjectNoWrite ==
    [][user.id = "" => rows' = rows]_vars

\* C16: when the list query of a run fails, that step ends the run as a
\* failure, leaves the profile store as it was and starts no other attempt.
C16_ListFailureAborts ==
    [][\A s \in Slots :
          (runs[s].pc = "list" /\ runs'[s].pc # "list" /\ "list" \in runs'[s].faults)
          => /\ runs'[s].pc = "done"
             /\ ~runs'[s].success
             /\ rows' = rows
             /\ started' = started]_vars

C16_Witness ==
    /\ Completed(1) /\ runs[1].branch = "listError" /\ ~runs[1].success
    /\ runs[1].logged = {"list"}
    /\ SubjectRows = {}

\* C17: a run in which a store request failed does not report success.
C17_NoSwallowedError ==
    \A s \in Slots : Succeeded(s) => runs[s].faults = {}

\* C18: the step in which a run ends in failure changes neither the
\* current user nor loading.
C18_FailureKeepsUser ==
    [][\A s \in Slots :
          (InFlight(s) /\ runs'[s].pc = "done" /\ ~runs'[s].success)
          => (auth'.user = auth.user /\ auth'.loading = auth.loading)]_vars

C18_Witness ==
    /\ Completed(1) /\ ~runs[1].success /\ runs[1].faults # {}
    /\ auth.mounted /\ auth.user # 0 /\ ~auth.loading

\* C19: a step in which the current user goes from a signed-in identity to
\* none starts no reconciliation run and leaves the profile store as it was.
C19_SignOutStartsNothing ==
    [][(auth.user # 0 /\ auth'.user = 0)
          => (started' = started /\ runs' = runs /\ rows' = rows)]_vars

C19_Witness ==
    /\ auth.mounted /\ ~auth.session /\ auth.user = 0
    /\ started = 1 /\ InFlight(1)

\* C20: the only subscription to the provider that is live is the one the
\* current session effect holds; once AuthProvider is torn down none is.
C20_HandlersReleased ==
    /\ auth.subs \subseteq {auth.effectSub}
    /\ ~auth.mounted => auth.subs = {}

C20_Witness ==
    /\ ~auth.mounted /\ auth.nextSub > 2 /\ auth.subs = {}
    /\ auth.session /\ auth.user # 0

\* what one row may become under the existing-profile update: every column
\* but last_sign_in_at, name and roles is kept, the name changes only from an
\* empty stored name to a derived one, the roles only when the stored row
\* lacks the default role
PatchedFrom(r, q) ==
    /\ q.id = r.id
    /\ \A f \in DOMAIN r \ {"last_sign_in_at", "name", "roles"} : q[f] = r[f]
    /\ r.uuid # user.id => q = r
    /\ q.name # r.name => ~Truthy(r.name) /\ Truthy(userName(user))
    /\ q.roles # r.roles => DefaultRole \notin RoleSet(r)

\* C21: the update of the existing-profile branch is a targeted patch: it
\* writes last_sign_in_at, writes the name only when the stored name is
\* empty and a name was derived, writes the roles only when the stored row
\* lacks the default role, and leaves email, image, providers and phone of
\* the row as they were.
C21_TargetedPatch ==
    [][\A s \in Slots :
         (runs[s].branch = "existing" /\ runs[s].pc = "update"
            /\ runs'[s].pc = "done")
         => /\ Cardinality(rows') = Cardinality(rows)
            /\ \A r \in rows : \E q \in rows' : PatchedFrom(r, q)]_vars

Ids(rs) == {r.id : r \in rs}

\* C22: in the no-row branch the second point lookup comes before any
\* creation: a run reaches its upsert only from that lookup; when the lookup
\* finds a row the run goes on as for an existing profile, and from then on
\* its only write is the patch update: it inserts and upserts nothing.
C22_SecondLookupFirst ==
    [][\A s \in Slots :
         /\ (runs'[s].pc = "upsert" /\ runs[s].pc # "upsert")
              => runs[s].pc = "doubleCheck"
         /\ (runs[s].pc = "doubleCheck" /\ runs'[s] # runs[s]
               /\ runs'[s].faults = runs[s].faults
               /\ SelectByUuid(rows, user.id) # {})
              => runs'[s].branch = "doubleCheck" /\ runs'[s].pc = "readCurrentDC"
         /\ (runs[s].branch = "doubleCheck" /\ InFlight(s) /\ runs'[s] # runs[s])
              => /\ runs'[s].pc \in {"updateDC", "done"}
                 /\ Ids(rows') = Ids(rows)
                 /\ nextId' = nextId
                 /\ rows' \in {rows, UpdateByUuid(rows, user.id, runs[s].updateData)}]_vars

\* a run that found the row in its second lookup has finished with the patch
\* update, beside a run that created the row
C22_Witness ==
    \E s, t \in Slots :
        /\ Succeeded(s) /\ runs[s].branch = "doubleCheck"
        /\ Succeeded(t) /\ runs[t].branch = "create"
        /\ Cardinality(SubjectRows) = 1

\* C23: the creation upsert does not clobber a row that another writer
\* created for the subject between this run's second lookup and its upsert:
\* the row's non-empty name is left as it was and none of its roles is
\* removed.
C23_UpsertKeepsRow ==
    [][\A s \in Slots :
         (runs[s].branch = "create" /\ runs[s].pc = "upsert"
            /\ runs'[s].pc = "done")
         => \A r \in SelectByUuid(rows, user.id) :
              \E q \in rows' :
                /\ q.id = r.id
                /\ Truthy(r.name) => q.name = r.name
                /\ RoleSet(r) \subseteq RoleSet(q)]_vars

\* C26: the reconciler is the only writer of profile rows: every step that
\* changes the table is a step of a reconciliation run; the session monitor,
\* the route guard and the profile page write no row.
C26_OnlyReconcilerWrites ==
    [][rows' # rows => \E s \in Slots : InFlight(s) /\ runs'[s] # runs[s]]_vars

\* C24: the duplicate collapse heals itself: when a run has deleted the
\* extra rows and its update of the survivor has failed, the store holds
\* exactly one row for the subject, and the next run sees that one row, takes
\* the existing-profile branch and completes the merge: the row has a name
\* when one can be derived, and it has the default role.
C24_SelfHealing ==
    \A k \in 1..(Len(history) - 1) :
        (history[k].branch = "collapse" /\ history[k].faults = {"updateOldest"}
           /\ history[k + 1].faults = {})
        => /\ Cardinality(history[k].rows) = 1
           /\ history[k + 1].branch = "existing"
           /\ Cardinality(history[k + 1].rows) = 1
           /\ \A r \in history[k + 1].rows :
                /\ DefaultRole \in RoleSet(r)
                /\ Truthy(userName(user)) => Truthy(r.name)

\* the survivors the duplicate collapse can pick among the rows S: the first
\* element of the sorted list, over every order the store may return S in
Survivors(S) == {q[1].id : q \in UNION {SortResults(p) : p \in Orders(S)}}

\* C25: the survivor of the duplicate collapse does not depend on the order
\* in which the store returned the rows, also when creation timestamps are
\* equal or absent on some rows: for the rows a collapsing run was given,
\* every return order leads to the survivor this run picked.
C25_SurvivorOrderFree ==
    \A s \in Slots :
        (runs[s].branch = "collapse" /\ runs[s].pc = "delete" /\ runs[s].i = 1)
        => Survivors(Range(runs[s].sortedProfiles)) = {runs[s].sortedProfiles[1].id}

\* C28: the duplicate collapse never deletes every row: when two runs have
\* both seen the same duplicates and both collapsed them, at least one row of
\* the subject remains, however their steps interleave and in whatever order
\* the store returned the rows.
C28_CollapseKeepsARow ==
    \A s, t \in Slots :
        (s # t /\ runs[s].branch = "collapse" /\ runs[t].branch = "collapse"
           /\ Range(runs[s].sortedProfiles) = Range(runs[t].sortedProfiles))
        => SubjectRows # {}

C29_FailsOpen ==
    /\ (Decided /\ guard.check = "throw") => guard.res = Serve
    /\ Decided => guard.res \in {Serve, ToLogin, ToHome}
    /\ guard.stage = "middleware" => ENABLED Middleware

\* a protected path, requested without a session, is served because the
\* session check threw
C29_Witness ==
    /\ Decided /\ guard.path = "/workouts/7" /\ ~guard.has
    /\ guard.check = "throw" /\ guard.res = Serve

\* C30: the OAuth callback redirects to '/' only when the request carries no
\* error parameter, carries a code, and the exchange of the code succeeds;
\* in every other case (provider error, missing code, exchange error, thrown
\* exception) it redirects to /login; and it never writes a profile row.
C30_CallbackRedirects ==
    [][callback' # callback =>
         /\ rows' = rows
         /\ callback'.stage = "done" =>
              callback'.res =
                  IF ~Truthy(callback.error) /\ Truthy(callback.code)
                       /\ callback.exchange = "ok"
                  THEN ToHome ELSE ToLogin]_vars

\* the second callback request carried a code, its exchange threw, and it
\* has been sent to /login
C30_Witness ==
    /\ callback.stage = "done" /\ callback.n = 2
    /\ callback.error = NULL /\ callback.code = "abc"
    /\ callback.exchange = "throw" /\ callback.res = ToLogin

====
